---- MODULE Spec2Model ----
(***************************************************************************)
(* Model of the string helpers of the repository: the configurable         *)
(* toCamelCase of refined_prompt.js, toKebabCase of chain_prompt.js, the   *)
(* simple toCamelCase of few_shot_prompt.js and the two prompt builders.   *)
(*                                                                         *)
(* A JavaScript string handed to a case converter is a sequence of code    *)
(* points, each written as a TLA+ string ("a", "_", "U+00E9").  The text   *)
(* of a prompt field is a TLA+ string.  A caller repeatedly invokes one    *)
(* function on one argument, observes what came back and starts over.      *)
(***************************************************************************)
EXTENDS Integers, Sequences, FiniteSets, TLC

\* ---------------------------------------------------------------- bounds
MaxLen == 4
MaxExamples == 2

\* ------------------------------------------------------ character classes
\* lower/upper pairs of String.prototype.toLowerCase / toUpperCase
CasePairs ==
  { <<"a", "A">>, <<"b", "B">>, <<"c", "C">>, <<"e", "E">>,
    <<"j", "J">>, <<"o", "O">>, <<"t", "T">> }

AsciiLower == { p[1] : p \in CasePairs }
AsciiUpper == { p[2] : p \in CasePairs }
AsciiDigit == { "1", "2" }

\* U+00E9 is e-acute (a letter), U+00C9 its capital, U+0301 the combining
\* acute accent (a mark)
Marks == { "U+0301" }
Letters == AsciiLower \cup AsciiUpper \cup { "U+00E9", "U+00C9" }
UpperLetters == AsciiUpper \cup { "U+00C9" }
Numbers == AsciiDigit
Whitespace == { " " }
Punctuation == { "_", "-", "!", "$", "[", "]" }
Chars == Letters \cup Numbers \cup Marks \cup Whitespace \cup Punctuation
Alnum == Letters \cup Numbers
NonAlnum == Chars \ Alnum

LowerOf(c) ==
  IF c \in AsciiUpper THEN (CHOOSE p \in CasePairs : p[2] = c)[1]
  ELSE IF c = "U+00C9" THEN "U+00E9" ELSE c

UpperOf(c) ==
  IF c \in AsciiLower THEN (CHOOSE p \in CasePairs : p[1] = c)[2]
  ELSE IF c = "U+00E9" THEN "U+00C9" ELSE c

\* ------------------------------------------------------- string helpers
toLowerCase(s) == [i \in 1..Len(s) |-> LowerOf(s[i])]

toUpperCase(s) == [i \in 1..Len(s) |-> UpperOf(s[i])]

RECURSIVE join(_)
join(parts) == IF parts = <<>> THEN <<>> ELSE Head(parts) \o join(Tail(parts))

\* String.prototype.normalize('NFKD') on one code point
Decompose(c) ==
  IF c = "U+00E9" THEN <<"e", "U+0301">>
  ELSE IF c = "U+00C9" THEN <<"E", "U+0301">> ELSE <<c>>

normalizeNFKD(s) == join([i \in 1..Len(s) |-> Decompose(s[i])])

\* .replace(/\p{M}/gu, '')
stripMarks(s) == SelectSeq(s, LAMBDA c : c \notin Marks)

\* .replace(/(FIRST)(SECOND)/g, '$1' + sep + '$2'), scanning left to right;
\* a match consumes both characters
RECURSIVE insertBetween(_, _, _, _)
insertBetween(s, First, Second, sep) ==
  IF Len(s) < 2 THEN s
  ELSE IF s[1] \in First /\ s[2] \in Second
       THEN <<s[1], sep, s[2]>> \o insertBetween(SubSeq(s, 3, Len(s)), First, Second, sep)
       ELSE <<s[1]>> \o insertBetween(Tail(s), First, Second, sep)

\* length of the longest prefix of s made of characters of the class In
RECURSIVE runLength(_, _)
runLength(s, In) ==
  IF s = <<>> THEN 0
  ELSE IF Head(s) \notin In THEN 0 ELSE 1 + runLength(Tail(s), In)

\* .replace(/[CLASS]+/g, repl): every maximal run becomes repl
RECURSIVE replaceRuns(_, _, _)
replaceRuns(s, In, repl) ==
  IF s = <<>> THEN <<>>
  ELSE IF Head(s) \in In
       THEN repl \o replaceRuns(SubSeq(s, runLength(s, In) + 1, Len(s)), In, repl)
       ELSE <<Head(s)>> \o replaceRuns(Tail(s), In, repl)

\* .split(/[CLASS]+/): the pieces between maximal runs, empty ones included
RECURSIVE splitRuns(_, _)
splitRuns(s, In) ==
  LET n == runLength(s, Chars \ In)
      rest == SubSeq(s, n + 1, Len(s))
  IN  IF rest = <<>> THEN <<SubSeq(s, 1, n)>>
      ELSE <<SubSeq(s, 1, n)>>
             \o splitRuns(SubSeq(rest, runLength(rest, In) + 1, Len(rest)), In)

\* .filter(Boolean) on an array of strings
filterNonEmpty(parts) == SelectSeq(parts, LAMBDA p : p # <<>>)

\* ----------------------------------------------------------- JS values
Undefined == [kind |-> "undefined", chars |-> <<>>]
Null == [kind |-> "null", chars |-> <<>>]
False == [kind |-> "false", chars |-> <<>>]
True == [kind |-> "true", chars |-> <<>>]
Str(s) == [kind |-> "string", chars |-> s]
Num(s) == [kind |-> "number", chars |-> s]
Obj == [kind |-> "object", chars |-> <<>>]

\* String(value) for the non-string values the callers pass
StringOf(v) ==
  CASE v.kind = "string" -> v.chars
    [] v.kind = "number" -> v.chars
    [] v.kind = "object" ->
         <<"[", "o", "b", "j", "e", "c", "t", " ", "O", "b", "j", "e", "c", "t", "]">>

Returned(s) == [threw |-> "none", value |-> s]
Thrown(e) == [threw |-> e, value |-> <<>>]

\* ------------------------------------------- refined_prompt.js toCamelCase
makeLower(s) == toLowerCase(s)

capitalize(s) ==
  IF s = <<>> THEN <<>>
  ELSE <<UpperOf(s[1])>> \o toLowerCase(Tail(s))

\* /^\p{Lu}+$/u.test(tok) && tok.length > 1
isAcronym(tok) ==
  /\ tok # <<>>
  /\ \A i \in 1..Len(tok) : tok[i] \in UpperLetters
  /\ Len(tok) > 1

\* lines 105-109: destructuring with defaults; an option left out is Undefined
camelOptions(opts) ==
  [pascalCase |-> IF opts.pascalCase.kind = "undefined" THEN FALSE
                  ELSE opts.pascalCase.kind = "true",
   preserveAcronyms |-> IF opts.preserveAcronyms.kind = "undefined" THEN TRUE
                        ELSE opts.preserveAcronyms.kind = "true",
   prefixIfStartsWithDigit |->
     IF opts.prefixIfStartsWithDigit.kind = "undefined" THEN Str(<<"_">>)
     ELSE opts.prefixIfStartsWithDigit]

\* lines 116-119: normalisation, then the lower->Upper separator
camelNormalize(s) == stripMarks(normalizeNFKD(s))

camelBoundaries(s) == insertBetween(s, AsciiLower \cup AsciiDigit, AsciiUpper, " ")

\* lines 121-126: non-alphanumeric runs to one space, split, drop empties
camelRawTokens(s) ==
  filterNonEmpty(
    splitRuns(replaceRuns(camelBoundaries(camelNormalize(s)),
                          NonAlnum, <<" ">>),
              Whitespace))

\* lines 133-136
camelTokens(rawTokens, o) ==
  [i \in 1..Len(rawTokens) |->
     IF o.preserveAcronyms /\ isAcronym(rawTokens[i]) THEN rawTokens[i]
     ELSE toLowerCase(rawTokens[i])]

\* lines 139-141
camelFirst(tokens, o) ==
  IF ~o.pascalCase THEN makeLower(tokens[1]) ELSE capitalize(tokens[1])

\* camelRest without its acronym test: every later token is capitalised
camelRest_capitalizeAll(tokens, o) ==
  [i \in 1..(Len(tokens) - 1) |-> capitalize(tokens[i + 1])]

\* lines 144-147
camelRest(tokens, o) ==
  [i \in 1..(Len(tokens) - 1) |->
     IF o.preserveAcronyms /\ isAcronym(tokens[i + 1]) THEN tokens[i + 1]
     ELSE capitalize(tokens[i + 1])]

\* line 149
camelAssemble(rawTokens, o) ==
  LET tokens == camelTokens(rawTokens, o)
  IN  join(<<camelFirst(tokens, o)>> \o camelRest(tokens, o))

\* camelPrefix with a hard-wired '_' that ignores the option
camelPrefix_fixedUnderscore(assembledStr, o) ==
  IF assembledStr # <<>> /\ assembledStr[1] \in AsciiDigit
  THEN <<"_">> \o assembledStr
  ELSE assembledStr

\* lines 152-154; the option is a JS value, false being [kind |-> "false"]
camelPrefix(assembledStr, o) ==
  IF assembledStr # <<>> /\ assembledStr[1] \in AsciiDigit
     /\ o.prefixIfStartsWithDigit.kind # "false"
  THEN StringOf(o.prefixIfStartsWithDigit) \o assembledStr
  ELSE assembledStr

\* the whole call, lines 104-157
toCamelCase(v, opts) ==
  LET o == camelOptions(opts)
  IN  IF v.kind \in {"null", "undefined"} THEN Returned(<<>>)
      ELSE LET raw == camelRawTokens(StringOf(v))
           IN  IF Len(raw) = 0 THEN Returned(<<>>)
               ELSE Returned(camelPrefix(camelAssemble(raw, o), o))

\* ---------------------------------------------- chain_prompt.js toKebabCase
\* .replace(/_/g, '-')
replaceEach(s, c, repl) == [i \in 1..Len(s) |-> IF s[i] = c THEN repl ELSE s[i]]

\* stripEnds with only the ^-+ alternative
stripEnds_leadingOnly(s, In) == SubSeq(s, runLength(s, In) + 1, Len(s))

\* .replace(/^-+|-+$/g, '')
stripEnds(s, In) ==
  LET lead == runLength(s, In)
      body == SubSeq(s, lead + 1, Len(s))
      trail == runLength([i \in 1..Len(body) |-> body[Len(body) + 1 - i]], In)
  IN  SubSeq(body, 1, Len(body) - trail)

\* line 4
kebabBoundaries(s) == insertBetween(s, AsciiLower, AsciiUpper, "-")

\* lines 2-14 on a string
kebabOfString(s) ==
  stripEnds(
    replaceRuns(
      toLowerCase(
        replaceRuns(replaceEach(kebabBoundaries(s), "_", "-"),
                    Whitespace, <<"-">>)),
      {"-"}, <<"-">>),
    {"-"})

\* str.replace on a value that is not a string: null and undefined have no
\* properties, numbers and plain objects have no replace method
toKebabCase(v) ==
  IF v.kind = "string" THEN Returned(kebabOfString(v.chars))
  ELSE Thrown("TypeError")

\* ------------------------------------------- few_shot_prompt.js toCamelCase
simpleCamelOfString(s) ==
  LET words == splitRuns(s, Whitespace \cup {"_", "-"})
  IN  join([index \in 1..Len(words) |->
              IF index = 1 THEN toLowerCase(words[index])
              ELSE capitalize(words[index])])

simpleToCamelCase(v) ==
  IF v.kind = "string" THEN Returned(simpleCamelOfString(v.chars))
  ELSE Thrown("TypeError")

\* ------------------------------------------------------- prompt builders
\* A field of the argument object is left out (Absent) or holds a text.
Absent == [kind |-> "undefined", text |-> ""]
Text(t) == [kind |-> "string", text |-> t]

\* a destructuring default of '' applies to a field that is left out
orEmpty(f) == IF f.kind = "undefined" THEN "" ELSE f.text

PromptReturned(t) == [threw |-> "none", value |-> t]
PromptThrown(e) == [threw |-> e, value |-> ""]

\* the two Error messages, written without their backquotes
TaskRequired == "Error: task is required"
ExamplesRequired == "Error: examples must be a non-empty array"

\* Array.prototype.join on texts
RECURSIVE joinText(_, _)
joinText(parts, sep) ==
  IF parts = <<>> THEN ""
  ELSE IF Len(parts) = 1 THEN parts[1]
  ELSE parts[1] \o sep \o joinText(Tail(parts), sep)

\* basicSections pushing the Audience section without testing the field
basicSections_audienceAlways(task, audience, constraints, inputText, desiredOutput) ==
  <<"Task: " \o task, "Audience: " \o audience>>
    \o (IF constraints # "" THEN <<"Constraints: " \o constraints>> ELSE <<>>)
    \o (IF inputText # "" THEN <<"Input: " \o inputText>> ELSE <<>>)
    \o (IF desiredOutput # "" THEN <<"Desired output: " \o desiredOutput>> ELSE <<>>)

\* refined_prompt.js lines 185-190
basicSections(task, audience, constraints, inputText, desiredOutput) ==
  <<"Task: " \o task>>
    \o (IF audience # "" THEN <<"Audience: " \o audience>> ELSE <<>>)
    \o (IF constraints # "" THEN <<"Constraints: " \o constraints>> ELSE <<>>)
    \o (IF inputText # "" THEN <<"Input: " \o inputText>> ELSE <<>>)
    \o (IF desiredOutput # "" THEN <<"Desired output: " \o desiredOutput>> ELSE <<>>)

\* refined_prompt.js lines 182-193.  p.arg is "omitted" (the = {} default
\* applies), "null" (destructuring null is a TypeError) or "object".
buildBasicPrompt(p) ==
  IF p.arg = "null" THEN PromptThrown("TypeError")
  ELSE LET task == IF p.arg = "omitted" THEN "" ELSE orEmpty(p.task)
           o(f) == IF p.arg = "omitted" THEN "" ELSE orEmpty(f)
       IN  IF task = "" THEN PromptThrown(TaskRequired)
           ELSE PromptReturned(
                  joinText(basicSections(task, o(p.audience), o(p.constraints),
                                         o(p.input), o(p.desiredOutput)),
                           "\n\n"))

\* JSON.stringify of a text
jsonString(t) == "\"" \o t \o "\""

\* an example is an object with some of the keys below, each holding the
\* text KeyValue[key], or it is not an object at all
KeyValue ==
  [input |-> "in", output |-> "out", inputs |-> "ins", example |-> "ex",
   outputs |-> "outs", result |-> "res"]

\* a ?? b ?? '' over keys that are present or undefined
firstPresent(ex, k1, k2) ==
  IF k1 \in ex.keys THEN KeyValue[k1]
  ELSE IF k2 \in ex.keys THEN KeyValue[k2] ELSE ""

\* few_shot_prompt.js lines 29-33; idx is the 0-based index
formatExample(idx, ex) ==
  LET exInput == IF "input" \in ex.keys THEN KeyValue["input"]
                 ELSE jsonString(firstPresent(ex, "inputs", "example"))
      exOutput == IF "output" \in ex.keys THEN KeyValue["output"]
                  ELSE jsonString(firstPresent(ex, "outputs", "result"))
  IN  "Example " \o ToString(idx + 1) \o ":\nInput: " \o exInput
        \o "\nOutput: " \o exOutput

\* few_shot_prompt.js lines 46-55
fewShotParts(task, instructions, constraints, examples, inputText, desiredOutput) ==
  <<"Task: " \o task>>
    \o (IF instructions # "" THEN <<"Instructions: " \o instructions>> ELSE <<>>)
    \o (IF constraints # "" THEN <<"Constraints: " \o constraints>> ELSE <<>>)
    \o <<"Examples:">>
    \o [i \in 1..Len(examples) |-> formatExample(i - 1, examples[i])]
    \o (IF inputText # "" THEN <<"Input: " \o inputText>> ELSE <<>>)
    \o (IF desiredOutput # "" THEN <<"Desired output: " \o desiredOutput>> ELSE <<>>)

\* few_shot_prompt.js lines 35-58.  p.examples.kind is "undefined" (the = []
\* default applies), "array" or "string" (a value that is not an array);
\* the `in` operator of _formatExample throws on an element that is not an
\* object
buildFewShotPrompt(p) ==
  IF p.arg = "null" THEN PromptThrown("TypeError")
  ELSE LET task == IF p.arg = "omitted" THEN "" ELSE orEmpty(p.task)
           o(f) == IF p.arg = "omitted" THEN "" ELSE orEmpty(f)
           examples == IF p.arg = "omitted" \/ p.examples.kind = "undefined"
                       THEN [kind |-> "array", items |-> <<>>]
                       ELSE p.examples
       IN  IF task = "" THEN PromptThrown(TaskRequired)
           ELSE IF examples.kind # "array" \/ Len(examples.items) = 0
                THEN PromptThrown(ExamplesRequired)
           ELSE IF \E i \in 1..Len(examples.items) :
                     examples.items[i].kind # "object"
                THEN PromptThrown("TypeError")
           ELSE PromptReturned(
                  joinText(fewShotParts(task, o(p.instructions), o(p.constraints),
                                        examples.items, o(p.input),
                                        o(p.desiredOutput)),
                           "\n\n"))

\* ------------------------------------------------------------ the caller
VARIABLES pc, fn, input, opts, rawTokens, assembled, result, again,
          params, sections, prompt

vars == <<pc, fn, input, opts, rawTokens, assembled, result, again,
          params, sections, prompt>>

BoundedSeq(A, n) == UNION { [1..k -> A] : k \in 0..n }

CamelAlphabet == { "a", "A", "B", "1", "_", "U+00E9" }
KebabAlphabet == { "a", "A", "1", "_", "-", " ", "!" }

NonStrings == { Null, Undefined, Num(<<"1", "2">>), Obj }

CamelInputs == NonStrings \cup { Str(s) : s \in BoundedSeq(CamelAlphabet, MaxLen) }
KebabInputs == NonStrings \cup { Str(s) : s \in BoundedSeq(KebabAlphabet, MaxLen) }

NoOpts == [pascalCase |-> Undefined, preserveAcronyms |-> Undefined,
           prefixIfStartsWithDigit |-> Undefined]

CamelOpts ==
  [pascalCase : {Undefined, True},
   preserveAcronyms : {Undefined, False},
   prefixIfStartsWithDigit : {Undefined, False, Str(<<"$">>)}]

NoResult == [threw |-> "pending", value |-> <<>>]

NoParams ==
  [arg |-> "omitted", task |-> Absent, audience |-> Absent,
   instructions |-> Absent, constraints |-> Absent, input |-> Absent,
   desiredOutput |-> Absent, examples |-> [kind |-> "undefined", items |-> <<>>]]

NoPrompt == [threw |-> "pending", value |-> ""]

ExampleItems ==
  { [kind |-> "object", keys |-> {"input", "output"}],
    [kind |-> "object", keys |-> {"inputs", "result"}],
    [kind |-> "object", keys |-> {}],
    [kind |-> "null", keys |-> {}] }

ExamplesValues ==
  { [kind |-> "undefined", items |-> <<>>], [kind |-> "string", items |-> <<>>] }
    \cup { [kind |-> "array", items |-> e] : e \in BoundedSeq(ExampleItems, MaxExamples) }

OptionalField(t) == { Absent, Text(""), Text(t) }

BasicParams ==
  { NoParams, [NoParams EXCEPT !.arg = "null"] }
    \cup [arg : {"object"}, task : OptionalField("t"),
          audience : OptionalField("a"), instructions : {Absent},
          constraints : OptionalField("c"), input : OptionalField("i"),
          desiredOutput : OptionalField("d"),
          examples : {[kind |-> "undefined", items |-> <<>>]}]

FewShotParams ==
  { NoParams, [NoParams EXCEPT !.arg = "null"] }
    \cup [arg : {"object"}, task : OptionalField("t"),
          audience : {Absent}, instructions : {Absent, Text("n")},
          constraints : {Absent, Text("c")}, input : {Absent, Text("i")},
          desiredOutput : {Absent, Text("d")},
          examples : ExamplesValues]

Init ==
  /\ pc = "idle"
  /\ fn = "none"
  /\ input = Undefined
  /\ opts = NoOpts
  /\ rawTokens = <<>>
  /\ assembled = <<>>
  /\ result = NoResult
  /\ again = NoResult
  /\ params = NoParams
  /\ sections = <<>>
  /\ prompt = NoPrompt

CallToCamelCase ==
  /\ pc = "idle"
  /\ \E v \in CamelInputs, o \in CamelOpts :
       LET raw == IF v.kind \in {"null", "undefined"} THEN <<>>
                  ELSE camelRawTokens(StringOf(v))
       IN  /\ input' = v
           /\ opts' = o
           /\ rawTokens' = raw
           /\ assembled' = IF raw = <<>> THEN <<>>
                           ELSE camelAssemble(raw, camelOptions(o))
           /\ result' = toCamelCase(v, o)
  /\ fn' = "toCamelCase"
  /\ pc' = "returned"
  /\ UNCHANGED <<again, params, sections, prompt>>

\* the caller feeds the output back in with the same options
ReconvertCamelCase ==
  /\ pc = "returned"
  /\ fn = "toCamelCase"
  /\ result.threw = "none"
  /\ again' = toCamelCase(Str(result.value), opts)
  /\ pc' = "reconverted"
  /\ UNCHANGED <<fn, input, opts, rawTokens, assembled, result, params, sections, prompt>>

CallToKebabCase ==
  /\ pc = "idle"
  /\ \E v \in KebabInputs :
       /\ input' = v
       /\ result' = toKebabCase(v)
  /\ fn' = "toKebabCase"
  /\ pc' = "returned"
  /\ UNCHANGED <<opts, rawTokens, assembled, again, params, sections, prompt>>

CallSimpleToCamelCase ==
  /\ pc = "idle"
  /\ \E v \in KebabInputs :
       /\ input' = v
       /\ result' = simpleToCamelCase(v)
  /\ fn' = "simpleToCamelCase"
  /\ pc' = "returned"
  /\ UNCHANGED <<opts, rawTokens, assembled, again, params, sections, prompt>>

\* sections holds the array the builder joined, empty when it threw
CallBuildBasicPrompt ==
  /\ pc = "idle"
  /\ \E p \in BasicParams :
       /\ params' = p
       /\ prompt' = buildBasicPrompt(p)
       /\ sections' = IF buildBasicPrompt(p).threw # "none" THEN <<>>
                      ELSE basicSections(orEmpty(p.task), orEmpty(p.audience),
                                         orEmpty(p.constraints), orEmpty(p.input),
                                         orEmpty(p.desiredOutput))
  /\ fn' = "buildBasicPrompt"
  /\ pc' = "returned"
  /\ UNCHANGED <<input, opts, rawTokens, assembled, result, again>>

CallBuildFewShotPrompt ==
  /\ pc = "idle"
  /\ \E p \in FewShotParams :
       /\ params' = p
       /\ prompt' = buildFewShotPrompt(p)
       /\ sections' = IF buildFewShotPrompt(p).threw # "none" THEN <<>>
                      ELSE fewShotParts(orEmpty(p.task), orEmpty(p.instructions),
                                        orEmpty(p.constraints), p.examples.items,
                                        orEmpty(p.input), orEmpty(p.desiredOutput))
  /\ fn' = "buildFewShotPrompt"
  /\ pc' = "returned"
  /\ UNCHANGED <<input, opts, rawTokens, assembled, result, again>>

Return ==
  /\ pc \in {"returned", "reconverted"}
  /\ pc' = "idle"
  /\ fn' = "none"
  /\ input' = Undefined
  /\ opts' = NoOpts
  /\ rawTokens' = <<>>
  /\ assembled' = <<>>
  /\ result' = NoResult
  /\ again' = NoResult
  /\ params' = NoParams
  /\ sections' = <<>>
  /\ prompt' = NoPrompt

Next ==
  \/ CallToCamelCase
  \/ ReconvertCamelCase
  \/ CallToKebabCase
  \/ CallSimpleToCamelCase
  \/ CallBuildBasicPrompt
  \/ CallBuildFewShotPrompt
  \/ Return

Spec == Init /\ [][Next]_vars

\* ------------------------------------------------- vocabulary of the claims
IsConverter == fn \in {"toCamelCase", "toKebabCase", "simpleToCamelCase"}

CamelReturned == pc = "returned" /\ fn = "toCamelCase"

KebabReturned == pc = "returned" /\ fn = "toKebabCase"

\* the options in force, read off the caller's options object
PreserveInForce == opts.preserveAcronyms.kind # "false"

PascalInForce == opts.pascalCase.kind = "true"

PrefixDisabled == opts.prefixIfStartsWithDigit.kind = "false"

PrefixText ==
  IF opts.prefixIfStartsWithDigit.kind = "undefined" THEN <<"_">>
  ELSE opts.prefixIfStartsWithDigit.chars

AllUpper(tok) == \A i \in 1..Len(tok) : tok[i] \in UpperLetters

AcronymToken(tok) == Len(tok) >= 2 /\ AllUpper(tok)

RECURSIVE TotalLen(_, _)
TotalLen(toks, n) == IF n = 0 THEN 0 ELSE Len(toks[n]) + TotalLen(toks, n - 1)

\* the part of the assembled string that token i was emitted as
Emitted(i) ==
  SubSeq(assembled, TotalLen(rawTokens, i - 1) + 1, TotalLen(rawTokens, i))

FirstUpperRestLower(tok) ==
  [k \in 1..Len(tok) |-> IF k = 1 THEN UpperOf(tok[k]) ELSE LowerOf(tok[k])]

CountIn(s, In) == Cardinality({ i \in 1..Len(s) : s[i] \in In })

\* the tokens end after their first k word characters, with more to follow
BoundaryAfter(toks, k) ==
  \E n \in 1..(Len(toks) - 1) : TotalLen(toks, n) = k

\* C1: every case converter returns a string for every input value, null,
\* undefined, a number and an object included, and never throws.
C1_ConvertersAreTotal ==
  (pc = "returned" /\ IsConverter) => result.threw = "none"

\* C2: with preserveAcronyms true a first token that is an acronym is
\* emitted verbatim, in camel and in pascal mode.
C2_FirstAcronymVerbatim ==
  (CamelReturned /\ PreserveInForce /\ rawTokens # <<>>
     /\ AcronymToken(rawTokens[1]))
    => Emitted(1) = rawTokens[1]

\* C3: toCamelCase is idempotent: converting its own output again with the
\* same options gives the same output.
C3_Idempotent ==
  pc = "reconverted" => again = result

\* C4: for a string input every character of the output is a letter, a digit
\* or the style's separator: '-' for toKebabCase, for toCamelCase nothing but
\* the digit prefix at the very front.
C4_OutputAlphabet ==
  (pc = "returned" /\ input.kind = "string" /\ result.threw = "none")
    => /\ fn = "toKebabCase"
            => \A i \in 1..Len(result.value) : result.value[i] \in Alnum \cup {"-"}
       /\ fn = "toCamelCase"
            => /\ \A i \in 1..Len(assembled) : assembled[i] \in Alnum
               /\ result.value \in {assembled, PrefixText \o assembled}

\* C5: the digit-prefix guard of toCamelCase: an assembled string that starts
\* with a decimal digit gets String(prefixIfStartsWithDigit) in front unless
\* the option is false; otherwise the assembled string is returned unchanged;
\* with no tokens the output is '' without a prefix; with the default options
\* the output never starts with a digit and '1_a' gives '_1A'.
C5_DigitPrefixGuard ==
  CamelReturned =>
    /\ result.threw = "none"
    /\ rawTokens = <<>> => result.value = <<>>
    /\ (rawTokens # <<>> /\ assembled[1] \in AsciiDigit /\ ~PrefixDisabled)
         => result.value = PrefixText \o assembled
    /\ (rawTokens # <<>> /\ (assembled[1] \notin AsciiDigit \/ PrefixDisabled))
         => result.value = assembled
    /\ (opts.prefixIfStartsWithDigit.kind = "undefined" /\ result.value # <<>>)
         => result.value[1] \notin AsciiDigit
    /\ (input = Str(<<"1", "_", "a">>) /\ opts = NoOpts)
         => result.value = <<"_", "1", "A">>

C5_Witness ==
  /\ CamelReturned
  /\ rawTokens # <<>>
  /\ assembled[1] \in AsciiDigit
  /\ opts.prefixIfStartsWithDigit = Str(<<"$">>)
  /\ Len(rawTokens) = 2
  /\ result.value = <<"$">> \o assembled

\* the words of a kebab input: what lies between runs of '-', '_' and spaces
KebabDelimiters == {"-", "_", " "}

InputWords == filterNonEmpty(splitRuns(input.chars, KebabDelimiters))

OutputWords == splitRuns(result.value, {"-"})

HasCamelHump(s) ==
  \E i \in 1..(Len(s) - 1) : s[i] \in AsciiLower /\ s[i + 1] \in AsciiUpper

\* C6: for a string input the output of toKebabCase never starts or ends with
\* '-', never has two '-' in a row and has no uppercase letter, underscore or
\* whitespace; runs of hyphens, underscores and whitespace collapse to one
\* '-' between words ('a--a' and '-a-a-' both give 'a-a').
C6_KebabShape ==
  (KebabReturned /\ input.kind = "string") =>
    LET out == result.value
    IN  /\ result.threw = "none"
        /\ out # <<>> => (out[1] # "-" /\ out[Len(out)] # "-")
        /\ \A i \in 1..(Len(out) - 1) : ~(out[i] = "-" /\ out[i + 1] = "-")
        /\ \A i \in 1..Len(out) : out[i] \notin UpperLetters \cup {"_"} \cup Whitespace
        /\ SelectSeq(out, LAMBDA c : c # "-")
             = [i \in 1..Len(join(InputWords)) |-> LowerOf(join(InputWords)[i])]
        /\ ~HasCamelHump(input.chars)
             => (IF InputWords = <<>> THEN out = <<>>
                 ELSE OutputWords
                        = [n \in 1..Len(InputWords) |->
                             [i \in 1..Len(InputWords[n]) |-> LowerOf(InputWords[n][i])]])
        /\ input.chars \in {<<"a", "-", "-", "a">>, <<"-", "a", "-", "a">>,
                            <<"a", "-", "a", "-">>}
             => out = <<"a", "-", "a">>

C6_Witness ==
  /\ KebabReturned
  /\ input = Str(<<"-", "A", "_", " ">>)
  /\ result.value = <<"a">>

\* what the caller handed to a builder
TaskMissing == params.arg = "omitted" \/ params.task.text = ""

ExamplesMissing ==
  \/ params.arg = "omitted"
  \/ params.examples.kind # "array"
  \/ Len(params.examples.items) = 0

\* C7: the builders throw the required-field error exactly when task is
\* absent or empty (also with no argument) and, for buildFewShotPrompt, when
\* examples is absent, not an array or empty, the task check coming first;
\* in every other case the builder returns a string.
C7_RequiredFieldErrors ==
  pc = "returned" =>
    /\ fn = "buildBasicPrompt"
         => prompt.threw = IF TaskMissing THEN TaskRequired ELSE "none"
    /\ fn = "buildFewShotPrompt"
         => prompt.threw = IF TaskMissing THEN TaskRequired
                           ELSE IF ExamplesMissing THEN ExamplesRequired
                           ELSE "none"

OptionalLabels ==
  << <<"Audience: ", params.audience.text>>,
     <<"Constraints: ", params.constraints.text>>,
     <<"Input: ", params.input.text>>,
     <<"Desired output: ", params.desiredOutput.text>> >>

\* index in sections of the section carrying the label, 0 when there is none
SectionIndex(label, text) ==
  IF \E i \in 1..Len(sections) : sections[i] = label \o text
  THEN CHOOSE i \in 1..Len(sections) : sections[i] = label \o text
  ELSE 0

RECURSIVE BlankLineJoined(_)
BlankLineJoined(n) ==
  IF n = 1 THEN sections[1]
  ELSE BlankLineJoined(n - 1) \o "\n\n" \o sections[n]

\* C8: with a task, buildBasicPrompt returns the sections Task, Audience,
\* Constraints, Input, Desired output in that order, joined by a blank line:
\* Task always and first, each optional section exactly once iff its field is
\* non-empty, nothing else, so 1 + (number of non-empty optional fields)
\* sections.
C8_BasicPromptSections ==
  (pc = "returned" /\ fn = "buildBasicPrompt" /\ params.arg = "object"
     /\ params.task.text # "")
    => /\ prompt.threw = "none"
       /\ sections[1] = "Task: " \o params.task.text
       /\ Len(sections)
            = 1 + Cardinality({ k \in 1..4 : OptionalLabels[k][2] # "" })
       /\ \A k \in 1..4 :
            LET label == OptionalLabels[k][1]
                text == OptionalLabels[k][2]
            IN  /\ Cardinality({ i \in 1..Len(sections) :
                                   sections[i] = label \o text })
                     = IF text # "" THEN 1 ELSE 0
                /\ text # "" => SectionIndex(label, text) > 1
       /\ \A k, m \in 1..4 :
            (k < m /\ OptionalLabels[k][2] # "" /\ OptionalLabels[m][2] # "")
              => SectionIndex(OptionalLabels[k][1], OptionalLabels[k][2])
                   < SectionIndex(OptionalLabels[m][1], OptionalLabels[m][2])
       /\ prompt.value = BlankLineJoined(Len(sections))

C8_Witness ==
  /\ pc = "returned"
  /\ fn = "buildBasicPrompt"
  /\ params.audience = Text("")
  /\ params.constraints = Absent
  /\ prompt.value = "Task: t\n\nInput: i\n\nDesired output: d"

ScannedText ==
  IF fn = "toCamelCase" THEN camelNormalize(input.chars) ELSE input.chars

WordChars == IF fn = "toCamelCase" THEN Alnum ELSE Chars \ KebabDelimiters

FoundTokens ==
  IF fn = "toCamelCase" THEN rawTokens ELSE filterNonEmpty(OutputWords)

\* C10: in toCamelCase and in toKebabCase a lowercase letter or digit directly
\* followed by an uppercase letter is a token boundary ('fooBar', 'a1B'); no
\* boundary is put between two uppercase letters or between an uppercase
\* letter and a following lowercase letter.
C10_CamelHumpBoundaries ==
  (pc = "returned" /\ fn \in {"toCamelCase", "toKebabCase"}
     /\ input.kind = "string")
    => \A i \in 1..(Len(ScannedText) - 1) :
         LET c == ScannedText[i]
             d == ScannedText[i + 1]
             k == CountIn(SubSeq(ScannedText, 1, i), WordChars)
         IN  /\ (c \in AsciiLower \cup AsciiDigit /\ d \in AsciiUpper)
                  => BoundaryAfter(FoundTokens, k)
             /\ (c \in AsciiUpper /\ d \in AsciiUpper \cup AsciiLower)
                  => ~BoundaryAfter(FoundTokens, k)

====
